---- MODULE Spec2Model ----
(***************************************************************************)
(* Slash-command trigger detection, palette keyboard selection and command *)
(* execution of the my-happy client.                                       *)
(*                                                                         *)
(* Strings are sequences of one-character strings, so that trimming,       *)
(* prefix tests and case are computed rather than assumed.                 *)
(***************************************************************************)
EXTENDS Integers, Sequences, FiniteSets, TLC

VARIABLES
    \* ---- useCommandDetector (sources/hooks/useCommandDetector.ts)
    text,           \* the hook's `text` argument
    trigger,        \* the hook's `trigger` argument
    detector,       \* the hook's last result: [rendered, isActive]
    cleared,        \* the last clear() call: [called, value]
    \* ---- CommandPalette (sources/components/CommandPalette.tsx) and its owner
    visible,        \* props.visible
    items,          \* props.items, as the sequence of item ids
    selectedIndex,  \* props.selectedIndex, a JS value (number, NaN or undefined)
    event,          \* the last operation on the palette and the props it saw
    calls,          \* the callbacks the last operation invoked, in order
    \* ---- useCommandExecutor and sessionRPC (docs/plans/2025-01-03-slash-commands-design.md)
    sessionId,      \* the hook's sessionId argument ("" when there is no session)
    connected,      \* getApiSyncSocket() returns a socket
    isExecuting,    \* the hook's isExecuting state
    dispatches,     \* one record per executeCommand call, in call order
    socketCalls,    \* the apiSocket.sessionRPC calls made, in order
    alerts,         \* the Modal.alert calls made, in order
    sent,           \* the texts handed to the message-send channel, in order
    escaped,        \* the executeCommand calls whose promise rejected
    \* ---- AgentInput and the searchable CommandPalette of the same document
    registry,       \* SLASH_COMMANDS
    value,          \* props.value, the input text
    showCommandPalette,  \* AgentInput state
    showAutocomplete,    \* AgentInput state
    filteredCommands,    \* AgentInput state
    searchQuery,    \* the palette's searchQuery state
    paletteCommands,     \* the palette's own filteredCommands state
    agentEvent,     \* the last operation on AgentInput and what it saw
    pending,        \* the input text that comes next (candidate filter only)
    prevValue,      \* the input text before the last change (candidate filter only)
    prevFiltered,   \* filteredCommands before the last change (candidate filter only)
    temporalDeadZone,    \* the build keeps the dead zone of const bindings
    microtasks,     \* the handleCommandSelect calls waiting behind their await, in order
    resumed,        \* the dispatches handleCommandSelect has resumed behind
    \* ---- ModelSelectorModal (sources/components/ModelSelectorModal.tsx)
    modalVisible,   \* props.visible
    models,         \* props.models, as the sequence of model ids
    selectedModelId,     \* props.selectedModelId ("" when absent)
    isLoading,      \* props.isLoading
    modalEvent,     \* the last operation on the modal and the props it saw
    modalCalls      \* the callbacks the last operation invoked, in order

detectorVars == <<text, trigger, detector, cleared>>
paletteVars  == <<visible, items, selectedIndex, event, calls>>
executorVars == <<sessionId, connected, isExecuting, dispatches, socketCalls,
                  alerts, sent, escaped>>
agentVars == <<registry, value, showCommandPalette, showAutocomplete,
               filteredCommands, searchQuery, paletteCommands, agentEvent,
               pending, prevValue, prevFiltered, temporalDeadZone,
               microtasks, resumed>>
modalVars == <<modalVisible, models, selectedModelId, isLoading, modalEvent,
               modalCalls>>
vars == <<detectorVars, paletteVars, executorVars, agentVars, modalVars>>

-----------------------------------------------------------------------------
(* Bounds of the model *)

MaxLen == 3          \* longest input text
MaxTriggerLen == 2   \* longest trigger handed to the detector
MaxItems == 3        \* longest item list shown by the palette
MaxDispatches == 2   \* executeCommand calls in one behaviour

-----------------------------------------------------------------------------
(* Strings *)

WhiteSpace == {" ", "\t"}
Alphabet == WhiteSpace \cup {"/", "m", "M"}

IsWhiteSpace(c) == c \in WhiteSpace

SeqsUpTo(S, n) == UNION {[1..k -> S] : k \in 0..n}

Texts == SeqsUpTo(Alphabet, MaxLen)
Triggers == SeqsUpTo(Alphabet, MaxTriggerLen)

\* String.prototype.toLowerCase, on one character of the alphabet
UpperCase == <<"A", "B", "C", "D", "E", "F", "G", "H", "I", "J", "K", "L", "M",
               "N", "O", "P", "Q", "R", "S", "T", "U", "V", "W", "X", "Y", "Z">>
LowerCase == <<"a", "b", "c", "d", "e", "f", "g", "h", "i", "j", "k", "l", "m",
               "n", "o", "p", "q", "r", "s", "t", "u", "v", "w", "x", "y", "z">>
LowerChar(c) ==
    IF \E i \in 1..Len(UpperCase) : UpperCase[i] = c
    THEN LowerCase[CHOOSE i \in 1..Len(UpperCase) : UpperCase[i] = c]
    ELSE c
toLowerCase(s) == [i \in 1..Len(s) |-> LowerChar(s[i])]

RECURSIVE trimStart(_)
trimStart(s) ==
    IF s = <<>> THEN s
    ELSE IF IsWhiteSpace(Head(s)) THEN trimStart(Tail(s)) ELSE s

RECURSIVE trimEnd(_)
trimEnd(s) ==
    IF s = <<>> THEN s
    ELSE IF IsWhiteSpace(s[Len(s)]) THEN trimEnd(SubSeq(s, 1, Len(s) - 1)) ELSE s

\* String.prototype.trim: strip leading and trailing white space
trim(s) == trimEnd(trimStart(s))

-----------------------------------------------------------------------------
(* useCommandDetector *)

\* const trimmedText = text.trim(); const isActive = trimmedText === trigger;
isActiveOfTrimStartOnly(x, t) == trimStart(x) = t
isActiveOf(x, t) == trim(x) = t

\* clear: () => { return ''; }
clearKeepsText == text
clear == <<>>

useCommandDetector(x, t) == [rendered |-> TRUE, isActive |-> isActiveOf(x, t)]

NotRendered == [rendered |-> FALSE, isActive |-> FALSE]
NotCleared == [called |-> FALSE, value |-> <<>>]

\* The component owning the hook renders with its current text and trigger.
Render ==
    /\ detector' = useCommandDetector(text, trigger)
    /\ UNCHANGED <<text, trigger, cleared>>
    /\ UNCHANGED <<paletteVars, executorVars, agentVars, modalVars>>

\* The user types one character; the owner renders again with the new text.
TypeChar ==
    \E c \in Alphabet :
        /\ Len(text) < MaxLen
        /\ text' = Append(text, c)
        /\ detector' = useCommandDetector(text', trigger)
        /\ UNCHANGED <<trigger, cleared>>
        /\ UNCHANGED <<paletteVars, executorVars, agentVars, modalVars>>

\* The user deletes the last character; the owner renders again.
Backspace ==
    /\ text # <<>>
    /\ text' = SubSeq(text, 1, Len(text) - 1)
    /\ detector' = useCommandDetector(text', trigger)
    /\ UNCHANGED <<trigger, cleared>>
    /\ UNCHANGED <<paletteVars, executorVars, agentVars, modalVars>>

\* The owner calls the clear function of the last render.
CallClear ==
    /\ detector.rendered
    /\ cleared' = [called |-> TRUE, value |-> clear]
    /\ UNCHANGED <<text, trigger, detector>>
    /\ UNCHANGED <<paletteVars, executorVars, agentVars, modalVars>>

-----------------------------------------------------------------------------
(* JavaScript number values, as far as the palette's index arithmetic uses *)
(* them: a number, NaN, or undefined.                                      *)

Num(k) == [kind |-> "number", n |-> k]
NaN == [kind |-> "NaN", n |-> 0]
Undefined == [kind |-> "undefined", n |-> 0]

\* v > k for a JS value v and a number k (false for NaN and undefined)
JsGt(v, k) == v.kind = "number" /\ v.n > k

\* v - 1 and v + 1 (undefined converts to NaN)
JsMinusOne(v) == IF v.kind = "number" THEN Num(v.n - 1) ELSE NaN
JsPlusOne(v) == IF v.kind = "number" THEN Num(v.n + 1) ELSE NaN

\* v % m for a JS value v and a number m >= 0: NaN when m is 0 or v is no
\* number, otherwise the remainder with the sign of the dividend
JsMod(v, m) ==
    IF v.kind # "number" \/ m = 0 THEN NaN
    ELSE IF v.n >= 0 THEN Num(v.n % m) ELSE Num(0 - ((0 - v.n) % m))

\* index is a valid position of a list of length len
InRange(v, len) == v.kind = "number" /\ v.n >= 0 /\ v.n < len

-----------------------------------------------------------------------------
(* CommandPalette *)

Keys == {"Escape", "ArrowUp", "ArrowDown", "Enter", "Tab"}

\* Item lists: item ids are 1..MaxItems; a list is a selection of them in
\* ascending (registry) order.
RECURSIVE SortedSeq(_)
SortedSeq(S) ==
    IF S = {} THEN <<>>
    ELSE LET m == CHOOSE x \in S : \A y \in S : x <= y
         IN <<m>> \o SortedSeq(S \ {m})

ItemLists == {SortedSeq(S) : S \in SUBSET (1..MaxItems)}

OnSelect(index) == [fn |-> "onSelect", arg |-> index]
OnClose == [fn |-> "onClose", arg |-> Undefined]

\* const newIndex = props.selectedIndex > 0 ? props.selectedIndex - 1
\*                                          : props.items.length - 1;
arrowUpIndexClamped(sel, len) ==
    IF JsGt(sel, 0) THEN JsMinusOne(sel) ELSE Num(0)
arrowUpIndex(sel, len) ==
    IF JsGt(sel, 0) THEN JsMinusOne(sel) ELSE Num(len - 1)

\* const newIndex = (props.selectedIndex + 1) % props.items.length;
arrowDownIndex(sel, len) == JsMod(JsPlusOne(sel), len)

\* handleSelect: hapticsLight(); props.onSelect(index);
handleSelect(index) == <<OnSelect(index)>>

\* handleKeyPress: the callbacks a key press invokes, in order, given the
\* props the handler closed over.
handleKeyPressEscapeNeedsItems(key, vis, sel, len) ==
    IF ~vis THEN <<>>
    ELSE IF key = "Escape" /\ len > 0 THEN <<OnClose>>
    ELSE IF key = "ArrowUp" THEN <<OnSelect(arrowUpIndex(sel, len))>>
    ELSE IF key = "ArrowDown" THEN <<OnSelect(arrowDownIndex(sel, len))>>
    ELSE IF key = "Enter" /\ len > 0 THEN handleSelect(sel)
    ELSE <<>>
handleKeyPressEnterUnguarded(key, vis, sel, len) ==
    IF ~vis THEN <<>>
    ELSE IF key = "Escape" THEN <<OnClose>>
    ELSE IF key = "ArrowUp" THEN <<OnSelect(arrowUpIndex(sel, len))>>
    ELSE IF key = "ArrowDown" THEN <<OnSelect(arrowDownIndex(sel, len))>>
    ELSE IF key = "Enter" THEN handleSelect(sel)
    ELSE <<>>
handleKeyPress(key, vis, sel, len) ==
    IF ~vis THEN <<>>
    ELSE IF key = "Escape" THEN <<OnClose>>
    ELSE IF key = "ArrowUp" THEN <<OnSelect(arrowUpIndex(sel, len))>>
    ELSE IF key = "ArrowDown" THEN <<OnSelect(arrowDownIndex(sel, len))>>
    ELSE IF key = "Enter" /\ len > 0 THEN handleSelect(sel)
    ELSE <<>>

\* The keydown listener is attached to the document only while the palette
\* is visible; without it a key press reaches no handler.
keydown(key, vis, sel, len) ==
    IF vis THEN handleKeyPress(key, vis, sel, len) ELSE <<>>

\* The owner of the palette holds visible and selectedIndex and passes them
\* back as props: onSelect(index) stores the index, onClose hides the palette.
RECURSIVE ownerIndex(_, _)
ownerIndex(cs, sel) ==
    IF cs = <<>> THEN sel
    ELSE ownerIndex(Tail(cs), IF Head(cs).fn = "onSelect" THEN Head(cs).arg ELSE sel)

ownerVisible(cs, vis) ==
    vis /\ \A i \in 1..Len(cs) : cs[i].fn # "onClose"

\* The id of the highlighted item, 0 when nothing valid is highlighted
highlightedId(list, sel) ==
    IF InRange(sel, Len(list)) THEN list[sel.n + 1] ELSE 0

\* setCandidates(list): keep the highlighted id when the new list has it,
\* otherwise highlight index 0 of a non-empty list, otherwise nothing.
setCandidatesStale(list, prevItems, prevSel) == prevSel
setCandidates(list, prevItems, prevSel) ==
    LET id == highlightedId(prevItems, prevSel)
    IN IF id # 0 /\ \E i \in 1..Len(list) : list[i] = id
       THEN Num((CHOOSE i \in 1..Len(list) : list[i] = id) - 1)
       ELSE IF list # <<>> THEN Num(0) ELSE Undefined

Seen(op, key) ==
    [op |-> op, key |-> key, before |-> selectedIndex,
     wasVisible |-> visible, beforeItems |-> items]

\* A key is pressed.
KeyPress ==
    \E key \in Keys :
        LET cs == keydown(key, visible, selectedIndex, Len(items))
        IN /\ calls' = cs
           /\ selectedIndex' = ownerIndex(cs, selectedIndex)
           /\ visible' = ownerVisible(cs, visible)
           /\ event' = Seen("key", key)
           /\ UNCHANGED items
           /\ UNCHANGED <<detectorVars, executorVars, agentVars, modalVars>>

\* An item of the visible list is pressed: onPress={() => handleSelect(index)}
Tap ==
    \E i \in 1..Len(items) :
        LET cs == handleSelect(Num(i - 1))
        IN /\ visible
           /\ calls' = cs
           /\ selectedIndex' = ownerIndex(cs, selectedIndex)
           /\ visible' = ownerVisible(cs, visible)
           /\ event' = Seen("tap", "")
           /\ UNCHANGED items
           /\ UNCHANGED <<detectorVars, executorVars, agentVars, modalVars>>

\* The backdrop is pressed: <TouchableWithoutFeedback onPress={props.onClose}>
BackdropPress ==
    LET cs == <<OnClose>>
    IN /\ visible
       /\ calls' = cs
       /\ visible' = ownerVisible(cs, visible)
       /\ event' = Seen("backdrop", "")
       /\ UNCHANGED <<items, selectedIndex>>
       /\ UNCHANGED <<detectorVars, executorVars, agentVars, modalVars>>

\* The owner replaces the candidate list.
SetCandidates ==
    \E list \in ItemLists :
        /\ items' = list
        /\ selectedIndex' = setCandidates(list, items, selectedIndex)
        /\ calls' = <<>>
        /\ event' = Seen("setCandidates", "")
        /\ UNCHANGED visible
        /\ UNCHANGED <<detectorVars, executorVars, agentVars, modalVars>>

\* The owner shows the palette.
Show ==
    /\ ~visible
    /\ visible' = TRUE
    /\ calls' = <<>>
    /\ event' = Seen("show", "")
    /\ UNCHANGED <<items, selectedIndex>>
    /\ UNCHANGED <<detectorVars, executorVars, agentVars, modalVars>>

-----------------------------------------------------------------------------
(* Command registry entries handed to executeCommand *)

Command(id, trig, type, rpcName, requiresSession) ==
    [id |-> id, trigger |-> trig, type |-> type, rpcName |-> rpcName,
     requiresSession |-> requiresSession]

\* SLASH_COMMANDS[0]: the /model command
ModelCommand ==
    Command("model", <<"/", "m", "o", "d", "e", "l">>, "rpc", "setModel", TRUE)

\* The /settings command of "Adding New Commands"
SettingsCommand ==
    Command("settings", <<"/", "s", "e", "t", "t", "i", "n", "g", "s">>,
            "message", "", FALSE)

\* The two remaining shapes of a SlashCommand: a remote call that needs no
\* session and a message that needs one (/abort and /clear of the future list).
AbortCommand ==
    Command("abort", <<"/", "a", "b", "o", "r", "t">>, "rpc", "abort", FALSE)
ClearCommand ==
    Command("clear", <<"/", "c", "l", "e", "a", "r">>, "message", "", TRUE)

Commands == {ModelCommand, SettingsCommand, AbortCommand, ClearCommand}

SessionIds == {"", "s1"}

-----------------------------------------------------------------------------
(* What the transport can answer to one apiSocket.sessionRPC call *)

Reply(kind, success, message, isError) ==
    [kind |-> kind, success |-> success, message |-> message, isError |-> isError]

Replies ==
    { Reply("response", TRUE, "", FALSE),                  \* { success: true }
      Reply("response", FALSE, "Model not available", FALSE),
      Reply("response", FALSE, "", FALSE),                 \* no success, no message
      Reply("throw", FALSE, "timeout", TRUE),              \* rejects with an Error
      Reply("throw", FALSE, "", FALSE),                    \* rejects with a non-Error
      Reply("malformed", FALSE, "", FALSE) }               \* resolves to undefined

NoReply == Reply("none", FALSE, "", FALSE)

\* The value sessionRPC resolves to: an object { success, message } or undefined
Result(success, message) == [kind |-> "object", success |-> success, message |-> message]
UndefinedResult == [kind |-> "undefined", success |-> FALSE, message |-> ""]

\* The message of the TypeError raised by reading .success of undefined
TypeErrorMessage == "Cannot read properties of undefined (reading 'success')"

\* sessionRPC: viaSocket says whether getApiSyncSocket() gave a socket when
\* the call was made, reply what the socket answered.
sessionRPC(viaSocket, reply) ==
    IF ~viaSocket THEN Result(FALSE, "Not connected to session")
    ELSE IF reply.kind = "throw"
         THEN Result(FALSE, IF reply.isError THEN reply.message ELSE "RPC call failed")
    ELSE IF reply.kind = "malformed" THEN UndefinedResult
    ELSE Result(reply.success, reply.message)

-----------------------------------------------------------------------------
(* useCommandExecutor *)

\* if (command.requiresSession && !sessionId)
sessionMissingIgnored(command, sid) == FALSE
sessionMissing(command, sid) == command.requiresSession /\ sid = ""

\* sessionRPC(sessionId, command.rpcName!, params)
rpcCallById(d, command, sid) == [d |-> d, sessionId |-> sid, method |-> command.id]
rpcCall(d, command, sid) == [d |-> d, sessionId |-> sid, method |-> command.rpcName]

\* The rest of the try / catch / finally once sessionRPC has resolved:
\* whether Modal.alert is called, with which message, and whether an
\* exception leaves executeCommand.
Outcome(alerted, message, thrown) ==
    [alerted |-> alerted, message |-> message, thrown |-> thrown]

afterRPCNoCatch(result) ==
    IF result.kind = "undefined" THEN Outcome(FALSE, "", TRUE)
    ELSE IF ~result.success
         THEN Outcome(TRUE, IF result.message # "" THEN result.message
                            ELSE "Command failed", FALSE)
    ELSE Outcome(FALSE, "", FALSE)
afterRPC(result) ==
    IF result.kind = "undefined" THEN Outcome(TRUE, TypeErrorMessage, FALSE)
    ELSE IF ~result.success
         THEN Outcome(TRUE, IF result.message # "" THEN result.message
                            ELSE "Command failed", FALSE)
    ELSE Outcome(FALSE, "", FALSE)

\* } else if (command.type === 'message') { /* to be implemented */ }
\* The texts the message branch hands to the message-send channel.
messageBranch(d, command) == <<>>

Dispatch(command, sid, phase, viaSocket) ==
    [command |-> command, sessionId |-> sid, phase |-> phase,
     viaSocket |-> viaSocket, reply |-> NoReply]

Alert(d, message) == [d |-> d, message |-> message]

\* executeCommand(command), up to its first await: the session check, and for
\* a command that passes it setIsExecuting(true) and the call of sessionRPC.
\* A message command has no await: its finally runs in the same turn.
executeCommand(command) ==
    LET d == Len(dispatches) + 1
    IN /\ d <= MaxDispatches
       /\ IF sessionMissing(command, sessionId)
          THEN /\ alerts' = Append(alerts, Alert(d, "Please start a session first"))
               /\ dispatches' = Append(dispatches,
                                  Dispatch(command, sessionId, "rejected", FALSE))
               /\ UNCHANGED <<isExecuting, socketCalls, sent>>
          ELSE IF command.type = "rpc"
          THEN /\ isExecuting' = TRUE
               /\ socketCalls' = IF connected
                                 THEN Append(socketCalls, rpcCall(d, command, sessionId))
                                 ELSE socketCalls
               /\ dispatches' = Append(dispatches,
                                  Dispatch(command, sessionId, "awaiting", connected))
               /\ UNCHANGED <<alerts, sent>>
          ELSE /\ isExecuting' = FALSE
               /\ sent' = sent \o messageBranch(d, command)
               /\ dispatches' = Append(dispatches,
                                  Dispatch(command, sessionId, "settled", FALSE))
               /\ UNCHANGED <<alerts, socketCalls>>
       /\ UNCHANGED <<sessionId, connected, escaped>>

\* executeCommand is called with some command.
ExecuteCommand ==
    \E command \in Commands :
        /\ executeCommand(command)
        /\ UNCHANGED <<detectorVars, paletteVars, agentVars, modalVars>>

\* finally { setIsExecuting(false); }: the flag after the block
finallyBlockSkipped(executing) == executing
finallyBlock(executing) == FALSE

\* The await of sessionRPC in dispatch d resumes with the socket's reply: the
\* rest of the try and the catch ...
settled(d, reply) ==
    LET out == afterRPC(sessionRPC(dispatches[d].viaSocket, reply))
    IN /\ dispatches[d].phase = "awaiting"
       /\ dispatches' = [dispatches EXCEPT ![d].phase = "settled",
                                           ![d].reply = IF dispatches[d].viaSocket
                                                        THEN reply ELSE NoReply]
       /\ alerts' = IF out.alerted THEN Append(alerts, Alert(d, out.message))
                    ELSE alerts
       /\ escaped' = IF out.thrown THEN escaped \cup {d} ELSE escaped
       /\ UNCHANGED <<sessionId, connected, socketCalls, sent>>

\* ... with the hook mounted, where setIsExecuting(false) takes effect
settle(d, reply) ==
    /\ settled(d, reply)
    /\ isExecuting' = finallyBlock(isExecuting)

\* Some awaited remote call settles.
Settle ==
    \E d \in 1..Len(dispatches), reply \in Replies :
        /\ settle(d, reply)
        /\ UNCHANGED <<detectorVars, paletteVars, agentVars, modalVars>>

\* The owner renders the hook with another sessionId (props.sessionId || '').
SetSession ==
    \E sid \in SessionIds :
        /\ sid # sessionId
        /\ sessionId' = sid
        /\ UNCHANGED <<connected, isExecuting, dispatches, socketCalls, alerts,
                       sent, escaped>>
        /\ UNCHANGED <<detectorVars, paletteVars, agentVars, modalVars>>

\* The sync socket connects or disconnects.
ToggleConnection ==
    /\ connected' = ~connected
    /\ UNCHANGED <<sessionId, isExecuting, dispatches, socketCalls, alerts,
                   sent, escaped>>
    /\ UNCHANGED <<detectorVars, paletteVars, agentVars, modalVars>>

-----------------------------------------------------------------------------
(* The command registry seen by AgentInput and the searchable palette *)

MaxPad == 1      \* white space on either side of an input text

\* '/models' next to '/model': two triggers of which one is a prefix of the
\* other, a message command that needs a session.
ModelsCommand ==
    Command("models", <<"/", "m", "o", "d", "e", "l", "s">>, "message", "", TRUE)

\* cmd.name
name(command) ==
    CASE command.id = "model" -> <<"S", "e", "l", "e", "c", "t", " ", "M", "o", "d", "e", "l">>
      [] command.id = "settings" -> <<"S", "e", "t", "t", "i", "n", "g", "s">>
      [] command.id = "abort" -> <<"A", "b", "o", "r", "t">>
      [] command.id = "clear" -> <<"C", "l", "e", "a", "r">>
      [] command.id = "models" -> <<"M", "o", "d", "e", "l", "s">>

\* cmd.description
description(command) ==
    CASE command.id = "model" -> <<"C", "h", "a", "n", "g", "e", " ", "t", "h", "e", " ", "A", "I", " ", "m", "o", "d", "e", "l">>
      [] command.id = "settings" -> <<"O", "p", "e", "n", " ", "a", "p", "p", " ", "s", "e", "t", "t", "i", "n", "g", "s">>
      [] command.id = "abort" -> <<"A", "b", "o", "r", "t", " ", "c", "u", "r", "r", "e", "n", "t", " ", "o", "p", "e", "r", "a", "t", "i", "o", "n">>
      [] command.id = "clear" -> <<"C", "l", "e", "a", "r", " ", "c", "o", "n", "v", "e", "r", "s", "a", "t", "i", "o", "n">>
      [] command.id = "models" -> <<"L", "i", "s", "t", " ", "m", "o", "d", "e", "l", "s">>

\* export const SLASH_COMMANDS: SlashCommand[] = [ { id: 'model', ... } ]
SLASH_COMMANDS == <<ModelCommand>>

\* "Adding New Commands": the settings entry is put before the existing ones
SettingsRegistry == <<SettingsCommand, ModelCommand>>

\* A registry grown by commands of the future list
FutureRegistry == <<ModelCommand, AbortCommand, ModelsCommand>>

Registries == {SLASH_COMMANDS, SettingsRegistry, FutureRegistry}

RegistryCommands == {ModelCommand, SettingsCommand, AbortCommand, ModelsCommand}

-----------------------------------------------------------------------------
(* Input texts and search queries *)

\* String.prototype.startsWith
startsWith(s, p) == Len(p) <= Len(s) /\ SubSeq(s, 1, Len(p)) = p

\* String.prototype.includes
includes(s, q) ==
    \E i \in 0..(Len(s) - Len(q)) : SubSeq(s, i + 1, i + Len(q)) = q

Prefixes(s) == {SubSeq(s, 1, k) : k \in 1..Len(s)}

TriggerPrefixes == UNION {Prefixes(c.trigger) : c \in RegistryCommands}

\* Texts that are no prefix of a trigger: empty, no slash, unknown command,
\* upper case, white space inside, a trigger with more typed behind it
OtherTexts ==
    {<<>>, <<"m">>, <<"/", "x">>, <<"/", "M">>, <<"/", "m", " ", "o">>, <<"/", "m", "o", "d", "e", "l", "x">>}

Pads(n) == UNION {[1..k -> {" "}] : k \in 0..n}

Padded(S, n) == {l \o s \o r : s \in S, l \in Pads(n), r \in Pads(n)}

\* The texts the candidate filter is applied to
FilterTexts == Padded(TriggerPrefixes \cup OtherTexts, MaxPad)

\* The texts typed into AgentInput: the first characters of a trigger, a
\* whole trigger, a text that is no prefix of a trigger, the slash in spaces
AgentTexts ==
    {s \in TriggerPrefixes : Len(s) <= 2}
        \cup {c.trigger : c \in RegistryCommands}
        \cup {<<>>, <<"m">>, <<"/", "x">>, <<"/", "M">>}
        \cup Padded({<<"/">>}, 1)

-----------------------------------------------------------------------------
(* AgentInput: the command-detection effect *)

\* SLASH_COMMANDS.filter(cmd => cmd.trigger.startsWith(trimmed))
matchesReversed(reg, trimmed) ==
    LET m == SelectSeq(reg, LAMBDA cmd : startsWith(cmd.trigger, trimmed))
    IN [i \in 1..Len(m) |-> m[Len(m) + 1 - i]]
matchesExact(reg, trimmed) ==
    SelectSeq(reg, LAMBDA cmd : cmd.trigger = trimmed)
matches(reg, trimmed) ==
    SelectSeq(reg, LAMBDA cmd : startsWith(cmd.trigger, trimmed))

Shown(palette, autocomplete, filtered) ==
    [palette |-> palette, autocomplete |-> autocomplete, filtered |-> filtered]

\* The body of the effect on [props.value]: what it sets showCommandPalette,
\* showAutocomplete and filteredCommands to.
effectKeepsListOnPlainText(reg, v) ==
    LET trimmed == trim(v)
    IN IF trimmed = <<"/">> THEN Shown(TRUE, FALSE, reg)
       ELSE IF startsWith(trimmed, <<"/">>)
            THEN Shown(FALSE, matches(reg, trimmed) # <<>>, matches(reg, trimmed))
       ELSE Shown(FALSE, FALSE, reg)
effectAutocompleteOnAnySlash(reg, v) ==
    LET trimmed == trim(v)
    IN IF trimmed = <<"/">> THEN Shown(TRUE, FALSE, reg)
       ELSE IF startsWith(trimmed, <<"/">>)
            THEN Shown(FALSE, TRUE, matches(reg, trimmed))
       ELSE Shown(FALSE, FALSE, <<>>)
effect(reg, v) ==
    LET trimmed == trim(v)
    IN IF trimmed = <<"/">> THEN Shown(TRUE, FALSE, reg)
       ELSE IF startsWith(trimmed, <<"/">>)
            THEN Shown(FALSE, matches(reg, trimmed) # <<>>, matches(reg, trimmed))
       ELSE Shown(FALSE, FALSE, <<>>)

\* CommandAutocomplete: commands.slice(0, 5)
AutocompleteRows == 5
slice(list, n) == SubSeq(list, 1, IF Len(list) < n THEN Len(list) ELSE n)

\* The lifecycle state the two flags stand for
lifecycle(palette, autocomplete) ==
    IF palette THEN "full" ELSE IF autocomplete THEN "narrowed" ELSE "closed"

\* The outcome of a render: the error it threw ("" when none) and the rows
\* on screen.
Painted(error, rows) == [error |-> error, rows |-> rows]

\* What a render of AgentInput's children puts on screen.  Each component
\* of the document begins with const { styles, ... } = useStyles(styles),
\* which reads its own binding styles before it is initialized:
\* CommandAutocomplete does so before its return null, so in a build that
\* keeps the dead zone of const every render throws.  In a build that
\* hoists the binding the read gives undefined and the render goes on.
\* CommandPalette returns null when not visible; when visible it renders
\* <View>, which it does not import, and throws before its search bar and
\* its list are reached.  CommandAutocomplete renders the first rows of
\* AgentInput's filteredCommands, nothing when not visible or when the
\* list is empty.
presented(deadZone, palette, autocomplete, filtered) ==
    IF deadZone
    THEN Painted("ReferenceError: Cannot access 'styles' before initialization",
                <<>>)
    ELSE IF palette
    THEN Painted("ReferenceError: View is not defined", <<>>)
    ELSE IF autocomplete /\ filtered # <<>>
    THEN Painted("", slice(filtered, AutocompleteRows))
    ELSE Painted("", <<>>)

\* AgentInput is mounted while its last render has thrown nothing: an error
\* thrown while rendering unmounts the tree, and nothing of it is left to
\* press or type into.
Mounted ==
    presented(temporalDeadZone, showCommandPalette, showAutocomplete,
              filteredCommands).error = ""

\* The macrotasks (a key, a press) run when no continuation is queued.
Quiet == microtasks = <<>>

\* What the last operation was and what it saw: the flags before it, the
\* command it confirmed ("" when none) and the dispatch it started or
\* resumed behind (0 when none).
AgentSaw(op, command, d) ==
    [op |-> op, prevPalette |-> showCommandPalette,
     prevAutocomplete |-> showAutocomplete, command |-> command, d |-> d]

AgentSeen(op) == AgentSaw(op, "", 0)

\* The effect runs after a render in which props.value changed.
runEffectNarrowsShownList(v) ==
    /\ showCommandPalette' = effect(filteredCommands, v).palette
    /\ showAutocomplete' = effect(filteredCommands, v).autocomplete
    /\ filteredCommands' = effect(filteredCommands, v).filtered
runEffect(v) ==
    /\ showCommandPalette' = effect(registry, v).palette
    /\ showAutocomplete' = effect(registry, v).autocomplete
    /\ filteredCommands' = effect(registry, v).filtered

\* The user edits the text: MultiTextInput is editable while nothing executes.
ChangeValue ==
    \E x \in AgentTexts :
        /\ Mounted /\ Quiet
        /\ ~isExecuting
        /\ x # value
        /\ value' = x
        /\ runEffect(x)
        /\ agentEvent' = AgentSeen("change")
        /\ UNCHANGED <<registry, searchQuery, paletteCommands, pending,
                       prevValue, prevFiltered, temporalDeadZone,
                       microtasks, resumed>>
        /\ UNCHANGED <<detectorVars, paletteVars, executorVars, modalVars>>

\* AgentInput's state after mounting with value v.  The first render has
\* the initial state (both flags false, filteredCommands SLASH_COMMANDS);
\* the effect runs once that render is committed, which it never is in a
\* build where the render throws.
mount(deadZone, reg, v) ==
    IF deadZone THEN Shown(FALSE, FALSE, reg) ELSE effect(reg, v)

\* isModelCommandActive, the visible prop of ModelSelectorModal: isActive of
\* the detector of the /model trigger on the input text
isModelCommandActive(v) == useCommandDetector(v, ModelCommand.trigger).isActive

\* A handleCommandSelect call waiting behind await executeCommand(command):
\* the dispatch it waits for, and whether executeCommand returned in the
\* press itself ("press") or after the reply of the session ("reply").
Continuation(d, queuedBy) == [d |-> d, queuedBy |-> queuedBy]

\* handleCommandSelect behind await executeCommand(command):
\* props.onChangeText(''), both flags off, and the effect on the new value.
afterExecuteKeepsText ==
    /\ showCommandPalette' = FALSE
    /\ showAutocomplete' = FALSE
    /\ UNCHANGED <<value, filteredCommands>>
afterExecute ==
    /\ value' = <<>>
    /\ showCommandPalette' = FALSE
    /\ showAutocomplete' = FALSE
    /\ filteredCommands' = IF value # <<>> THEN effect(registry, <<>>).filtered
                           ELSE filteredCommands

\* handleCommandSelect(command), up to its await: for /model both flags
\* off and return; otherwise executeCommand(command) as far as it runs in the
\* press, and the rest of handleCommandSelect waits: behind the reply of the
\* session when executeCommand awaits one, as the next microtask when
\* executeCommand has returned.
handleCommandSelect(command) ==
    IF command.id = "model"
    THEN /\ showCommandPalette' = FALSE
         /\ showAutocomplete' = FALSE
         /\ UNCHANGED <<value, filteredCommands, executorVars, microtasks>>
    ELSE /\ executeCommand(command)
         /\ microtasks' =
                IF dispatches'[Len(dispatches')].phase = "awaiting"
                THEN microtasks
                ELSE Append(microtasks,
                            Continuation(Len(dispatches'), "press"))
         /\ UNCHANGED <<value, showCommandPalette, showAutocomplete,
                        filteredCommands>>

\* The dispatch the operation has started, 0 when it started none
started == IF Len(dispatches') > Len(dispatches) THEN Len(dispatches') ELSE 0

\* A press on a row of the visible autocomplete
ConfirmInAutocomplete ==
    \E i \in 1..Len(slice(filteredCommands, AutocompleteRows)) :
        /\ Mounted /\ Quiet
        /\ showAutocomplete
        /\ handleCommandSelect(filteredCommands[i])
        /\ agentEvent' = AgentSaw("confirm", filteredCommands[i].id,
                                  started)
        /\ UNCHANGED <<registry, searchQuery, paletteCommands, pending,
                       prevValue, prevFiltered, temporalDeadZone, resumed>>
        /\ UNCHANGED <<detectorVars, paletteVars, modalVars>>

\* What the session answers to the remote call of a confirmed command
ConfirmedReplies ==
    { Reply("response", TRUE, "", FALSE),
      Reply("response", FALSE, "Model not available", FALSE),
      Reply("throw", FALSE, "timeout", TRUE) }

\* The remote call of a confirmed command settles: executeCommand resumes
\* behind its await (the alert, the finally block) and returns, and the
\* handleCommandSelect call that awaits it is queued.  Replies
\* that arrive in one task settle before any handleCommandSelect resumes.
\* The continuation runs whether or not the tree is still mounted; on an
\* unmounted tree setIsExecuting(false) sets nothing.
SettleConfirmed ==
    \E d \in 1..Len(dispatches), reply \in ConfirmedReplies :
        /\ \A i \in 1..Len(microtasks) : microtasks[i].queuedBy = "reply"
        /\ IF Mounted THEN settle(d, reply)
           ELSE settled(d, reply) /\ UNCHANGED isExecuting
        /\ microtasks' = IF d \in escaped' THEN microtasks
                         ELSE Append(microtasks, Continuation(d, "reply"))
        /\ UNCHANGED <<value, showCommandPalette, showAutocomplete,
                       filteredCommands>>
        /\ agentEvent' = AgentSaw("settle", dispatches[d].command.id, d)
        /\ UNCHANGED <<registry, searchQuery, paletteCommands, pending,
                       prevValue, prevFiltered, temporalDeadZone, resumed>>
        /\ UNCHANGED <<detectorVars, paletteVars, modalVars>>

\* The first handleCommandSelect call in the queue resumes behind its await,
\* mounted or not; on an unmounted tree props.onChangeText('') is still
\* called, the setters of the flags set nothing and no effect runs.
Resume ==
    /\ microtasks # <<>>
    /\ IF Mounted THEN afterExecute
       ELSE /\ value' = <<>>
            /\ UNCHANGED <<showCommandPalette, showAutocomplete,
                           filteredCommands>>
    /\ microtasks' = Tail(microtasks)
    /\ resumed' = resumed \cup {Head(microtasks).d}
    /\ agentEvent' = AgentSaw("resume",
                              dispatches[Head(microtasks).d].command.id,
                              Head(microtasks).d)
    /\ UNCHANGED <<registry, searchQuery, paletteCommands, pending,
                   prevValue, prevFiltered, temporalDeadZone>>
    /\ UNCHANGED <<detectorVars, paletteVars, executorVars, modalVars>>

\* The candidate filter alone: the input changes from value to the text
\* that comes next, and the effect runs.
Retype ==
    /\ Mounted
    /\ value' = pending
    /\ pending' = value
    /\ prevValue' = value
    /\ prevFiltered' = filteredCommands
    /\ runEffect(pending)
    /\ agentEvent' = AgentSeen("change")
    /\ UNCHANGED <<registry, searchQuery, paletteCommands, temporalDeadZone,
                   microtasks, resumed>>
    /\ UNCHANGED <<detectorVars, paletteVars, executorVars, modalVars>>

-----------------------------------------------------------------------------
(* ModelSelectorModal *)

MaxModels == 2   \* longest model list handed to the modal

ModelIds == {"m1", "m2", "m3"}

\* props.models: lists of models with distinct ids
ModelLists ==
    {ms \in SeqsUpTo(ModelIds, MaxModels) :
        \A i, j \in 1..Len(ms) : i # j => ms[i] # ms[j]}

\* props.isLoading is optional
LoadingValues == {"true", "false", "undefined"}

\* props.isLoading ? ... : ...
truthy(l) == l = "true"

ModalView(state, rows) == [state |-> state, rows |-> rows]

\* What the component renders: nothing when not visible, otherwise the
\* backdrop, the title and one of the loading indicator, the empty text
\* and one Pressable row per model.
ModelSelectorModalEmptyFirst(vis, loading, ms) ==
    IF ~vis THEN ModalView("hidden", <<>>)
    ELSE IF Len(ms) = 0 THEN ModalView("empty", <<>>)
    ELSE IF truthy(loading) THEN ModalView("loading", <<>>)
    ELSE ModalView("list", ms)
ModelSelectorModal(vis, loading, ms) ==
    IF ~vis THEN ModalView("hidden", <<>>)
    ELSE IF truthy(loading) THEN ModalView("loading", <<>>)
    ELSE IF Len(ms) = 0 THEN ModalView("empty", <<>>)
    ELSE ModalView("list", ms)

\* The props object the modal is rendered with
ModalProps(vis, ms, selected, loading) ==
    [visible |-> vis, models |-> ms, selectedModelId |-> selected,
     isLoading |-> loading]

\* props[field]: reading a property the object does not have gives undefined
prop(props, field) ==
    IF field \in DOMAIN props THEN props[field] ELSE "undefined"

\* const isSelected = model.id === props.selectedModel;
isSelected(modelId, props) == modelId = prop(props, "selectedModel")

\* The rows rendered with the selected label and the radio dot
selectedRows(props) ==
    LET rows == ModelSelectorModal(props.visible, props.isLoading, props.models).rows
    IN {i \in 1..Len(rows) : isSelected(rows[i], props)}

ModalCall(fn, modelId) == [fn |-> fn, modelId |-> modelId]

ModalSeen(op, row) ==
    [op |-> op, row |-> row,
     view |-> ModelSelectorModal(modalVisible, isLoading, models)]

\* The owner shows or hides the modal.
SetModalVisible ==
    /\ modalVisible' = ~modalVisible
    /\ modalEvent' = ModalSeen("props", 0)
    /\ modalCalls' = <<>>
    /\ UNCHANGED <<models, selectedModelId, isLoading>>
    /\ UNCHANGED <<detectorVars, paletteVars, executorVars, agentVars>>

\* The owner passes another model list.
SetModels ==
    \E ms \in ModelLists :
        /\ ms # models
        /\ models' = ms
        /\ modalEvent' = ModalSeen("props", 0)
        /\ modalCalls' = <<>>
        /\ UNCHANGED <<modalVisible, selectedModelId, isLoading>>
        /\ UNCHANGED <<detectorVars, paletteVars, executorVars, agentVars>>

\* The owner passes another isLoading.
SetLoading ==
    \E l \in LoadingValues :
        /\ l # isLoading
        /\ isLoading' = l
        /\ modalEvent' = ModalSeen("props", 0)
        /\ modalCalls' = <<>>
        /\ UNCHANGED <<modalVisible, models, selectedModelId>>
        /\ UNCHANGED <<detectorVars, paletteVars, executorVars, agentVars>>

\* The owner passes another selectedModelId ("" for none).
SetSelectedModel ==
    \E id \in ModelIds \cup {""} :
        /\ id # selectedModelId
        /\ selectedModelId' = id
        /\ modalEvent' = ModalSeen("props", 0)
        /\ modalCalls' = <<>>
        /\ UNCHANGED <<modalVisible, models, isLoading>>
        /\ UNCHANGED <<detectorVars, paletteVars, executorVars, agentVars>>

\* A press on a rendered row: handleSelect(model) calls props.onSelect(model.id)
PressModel ==
    \E i \in 1..Len(ModelSelectorModal(modalVisible, isLoading, models).rows) :
        /\ modalEvent' = ModalSeen("row", i)
        /\ modalCalls' =
              <<ModalCall("onSelect",
                          ModelSelectorModal(modalVisible, isLoading, models).rows[i])>>
        /\ UNCHANGED <<modalVisible, models, selectedModelId, isLoading>>
        /\ UNCHANGED <<detectorVars, paletteVars, executorVars, agentVars>>

\* A press on the backdrop of the rendered modal: props.onClose()
PressModalBackdrop ==
    /\ ModelSelectorModal(modalVisible, isLoading, models).state # "hidden"
    /\ modalEvent' = ModalSeen("backdrop", 0)
    /\ modalCalls' = <<ModalCall("onClose", "")>>
    /\ UNCHANGED <<modalVisible, models, selectedModelId, isLoading>>
    /\ UNCHANGED <<detectorVars, paletteVars, executorVars, agentVars>>

-----------------------------------------------------------------------------
(* Initial states of the parts a specification leaves alone *)

NoEvent ==
    [op |-> "init", key |-> "", before |-> Undefined,
     wasVisible |-> FALSE, beforeItems |-> <<>>]

PaletteIdle ==
    /\ visible = FALSE
    /\ items = <<>>
    /\ selectedIndex = Undefined
    /\ event = NoEvent
    /\ calls = <<>>

DetectorIdle ==
    /\ text = <<>>
    /\ trigger = <<>>
    /\ detector = NotRendered
    /\ cleared = NotCleared

ExecutorIdle ==
    /\ sessionId = ""
    /\ connected = FALSE
    /\ isExecuting = FALSE
    /\ dispatches = <<>>
    /\ socketCalls = <<>>
    /\ alerts = <<>>
    /\ sent = <<>>
    /\ escaped = {}

NoAgentEvent ==
    [op |-> "init", prevPalette |-> FALSE, prevAutocomplete |-> FALSE,
     command |-> "", d |-> 0]

AgentIdle ==
    /\ registry = <<>>
    /\ value = <<>>
    /\ showCommandPalette = FALSE
    /\ showAutocomplete = FALSE
    /\ filteredCommands = <<>>
    /\ searchQuery = <<>>
    /\ paletteCommands = <<>>
    /\ agentEvent = NoAgentEvent
    /\ pending = <<>>
    /\ prevValue = <<>>
    /\ prevFiltered = <<>>
    /\ temporalDeadZone = FALSE
    /\ microtasks = <<>>
    /\ resumed = {}

NoModalEvent == [op |-> "init", row |-> 0, view |-> ModalView("hidden", <<>>)]

ModalIdle ==
    /\ modalVisible = FALSE
    /\ models = <<>>
    /\ selectedModelId = ""
    /\ isLoading = "undefined"
    /\ modalEvent = NoModalEvent
    /\ modalCalls = <<>>

-----------------------------------------------------------------------------
(* Specifications *)

\* The trigger detector on every text and trigger within the bounds
InitDetector ==
    /\ text \in Texts
    /\ trigger \in Triggers
    /\ detector = NotRendered
    /\ cleared = NotCleared
    /\ PaletteIdle
    /\ ExecutorIdle
    /\ AgentIdle
    /\ ModalIdle

NextDetector ==
    \/ Render
    \/ TypeChar
    \/ Backspace
    \/ CallClear

SpecDetector == InitDetector /\ [][NextDetector]_vars

\* The palette and the owner of its selection state
InitPalette ==
    /\ visible = FALSE
    /\ items \in ItemLists
    /\ selectedIndex = setCandidates(items, <<>>, Undefined)
    /\ event = NoEvent
    /\ calls = <<>>
    /\ DetectorIdle
    /\ ExecutorIdle
    /\ AgentIdle
    /\ ModalIdle

NextPalette ==
    \/ KeyPress
    \/ Tap
    \/ BackdropPress
    \/ SetCandidates
    \/ Show

SpecPalette == InitPalette /\ [][NextPalette]_vars

\* The command executor against a transport that may answer anything
InitExecutor ==
    /\ sessionId \in SessionIds
    /\ connected \in BOOLEAN
    /\ isExecuting = FALSE
    /\ dispatches = <<>>
    /\ socketCalls = <<>>
    /\ alerts = <<>>
    /\ sent = <<>>
    /\ escaped = {}
    /\ DetectorIdle
    /\ PaletteIdle
    /\ AgentIdle
    /\ ModalIdle

NextExecutor ==
    \/ ExecuteCommand
    \/ Settle
    \/ SetSession
    \/ ToggleConnection

SpecExecutor == InitExecutor /\ [][NextExecutor]_vars

\* AgentInput after its first render, with the palette, the autocomplete
\* and the executor behind it, in a build that keeps the dead zone of
\* const or one that does not
InitAgentInput ==
    /\ registry \in Registries
    /\ value \in AgentTexts
    /\ temporalDeadZone \in BOOLEAN
    /\ showCommandPalette = mount(temporalDeadZone, registry, value).palette
    /\ showAutocomplete = mount(temporalDeadZone, registry, value).autocomplete
    /\ filteredCommands = mount(temporalDeadZone, registry, value).filtered
    /\ microtasks = <<>>
    /\ resumed = {}
    /\ searchQuery = <<>>
    /\ paletteCommands = registry
    /\ agentEvent = [NoAgentEvent EXCEPT !.op = "mount"]
    /\ pending = <<>>
    /\ prevValue = <<>>
    /\ prevFiltered = <<>>
    /\ sessionId \in SessionIds
    /\ connected = TRUE
    /\ isExecuting = FALSE
    /\ dispatches = <<>>
    /\ socketCalls = <<>>
    /\ alerts = <<>>
    /\ sent = <<>>
    /\ escaped = {}
    /\ DetectorIdle
    /\ PaletteIdle
    /\ ModalIdle

NextAgentInput ==
    \/ ChangeValue
    \/ ConfirmInAutocomplete
    \/ SettleConfirmed
    \/ Resume

SpecAgentInput == InitAgentInput /\ [][NextAgentInput]_vars

\* The candidate filter on every pair of successive input texts
InitFilter ==
    /\ registry \in Registries
    /\ value \in FilterTexts
    /\ pending \in FilterTexts
    /\ temporalDeadZone \in BOOLEAN
    /\ showCommandPalette = mount(temporalDeadZone, registry, value).palette
    /\ showAutocomplete = mount(temporalDeadZone, registry, value).autocomplete
    /\ filteredCommands = mount(temporalDeadZone, registry, value).filtered
    /\ microtasks = <<>>
    /\ resumed = {}
    /\ searchQuery = <<>>
    /\ paletteCommands = registry
    /\ agentEvent = [NoAgentEvent EXCEPT !.op = "mount"]
    /\ prevValue = value
    /\ prevFiltered = filteredCommands
    /\ DetectorIdle
    /\ PaletteIdle
    /\ ExecutorIdle
    /\ ModalIdle

NextFilter ==
    \/ Retype

SpecFilter == InitFilter /\ [][NextFilter]_vars

\* The model selector under every change of its props
InitModal ==
    /\ modalVisible = FALSE
    /\ models \in ModelLists
    /\ selectedModelId \in ModelIds \cup {""}
    /\ isLoading \in LoadingValues
    /\ modalEvent = NoModalEvent
    /\ modalCalls = <<>>
    /\ DetectorIdle
    /\ PaletteIdle
    /\ ExecutorIdle
    /\ AgentIdle

NextModal ==
    \/ SetModalVisible
    \/ SetModels
    \/ SetLoading
    \/ SetSelectedModel
    \/ PressModel
    \/ PressModalBackdrop

SpecModal == InitModal /\ [][NextModal]_vars

-----------------------------------------------------------------------------
(* Properties of the trigger detector (SpecDetector) *)

\* x is t between two runs of white space, t itself having no white space at
\* either end: what "x with leading and trailing white space removed is t" says
StripsTo(x, t) ==
    /\ t = <<>> \/ (~IsWhiteSpace(t[1]) /\ ~IsWhiteSpace(t[Len(t)]))
    /\ \E i \in 0..Len(x), j \in 0..Len(x) :
          /\ i + Len(t) + j = Len(x)
          /\ \A k \in 1..i : IsWhiteSpace(x[k])
          /\ \A k \in (Len(x) - j + 1)..Len(x) : IsWhiteSpace(x[k])
          /\ SubSeq(x, i + 1, i + Len(t)) = t

\* x is t followed by more text holding something other than white space
HasExtraContent(x, t) ==
    /\ Len(x) > Len(t)
    /\ SubSeq(x, 1, Len(t)) = t
    /\ \E k \in (Len(t) + 1)..Len(x) : ~IsWhiteSpace(x[k])

\* C1: the detector is active exactly when the text, stripped of leading and
\* trailing white space, is the trigger (case-sensitive); text with extra
\* content after the trigger, text differing from the trigger only in letter
\* case, and empty text for a non-empty trigger are never active.
DetectorActiveIffTrimmedEqualsTrigger ==
    detector.rendered =>
        /\ detector.isActive <=> StripsTo(text, trigger)
        /\ HasExtraContent(text, trigger) => ~detector.isActive
        /\ (text # trigger /\ toLowerCase(text) = toLowerCase(trigger))
              => ~detector.isActive
        /\ (text = <<>> /\ trigger # <<>>) => ~detector.isActive

\* A white-space padded text that activates a non-empty trigger
DetectorActiveOnPaddedText ==
    /\ detector.rendered
    /\ detector.isActive
    /\ trigger # <<>>
    /\ Len(text) > Len(trigger)
    /\ IsWhiteSpace(text[Len(text)])

\* C2: clear() yields the empty string for every text and trigger, whether
\* or not the detector is active.
ClearYieldsEmptyString ==
    cleared.called => cleared.value = <<>>

\* clear() called with a non-empty text that does not activate the trigger
ClearCalledWhileInactive ==
    /\ cleared.called
    /\ detector.rendered
    /\ ~detector.isActive
    /\ text # <<>>
    /\ trigger # <<>>

-----------------------------------------------------------------------------
(* Properties of the palette's selection (SpecPalette) *)

ArrowKeys == {"ArrowUp", "ArrowDown"}

\* undefined for an empty list, or a position of the list
ValidIndex(v, list) ==
    \/ list = <<>> /\ v = Undefined
    \/ InRange(v, Len(list))

\* C3: the highlighted index, as passed to onSelect and as held in
\* selectedIndex, is undefined when the item list is empty and otherwise an
\* integer in [0, items.length).
SelectionIndexValid ==
    /\ ValidIndex(selectedIndex, items)
    /\ \A i \in 1..Len(calls) :
          calls[i].fn = "onSelect" => ValidIndex(calls[i].arg, items)

\* The index an arrow key moves to from position i of n items, by the rule
\* of wraparound by one position
WrapUp(i, n) == IF i = 0 THEN n - 1 ELSE i - 1
WrapDown(i, n) == IF i = n - 1 THEN 0 ELSE i + 1

\* C4: with n >= 1 items and a highlighted index i in [0, n), ArrowUp moves
\* the highlight to n-1 when i = 0 and to i-1 otherwise, ArrowDown to 0 when
\* i = n-1 and to i+1 otherwise.
ArrowKeysWrapByOne ==
    LET n == Len(event.beforeItems)
        i == event.before.n
    IN (event.op = "key" /\ event.wasVisible /\ n >= 1 /\ InRange(event.before, n)) =>
          /\ event.key = "ArrowUp" =>
                /\ calls = <<OnSelect(Num(WrapUp(i, n)))>>
                /\ selectedIndex = Num(WrapUp(i, n))
          /\ event.key = "ArrowDown" =>
                /\ calls = <<OnSelect(Num(WrapDown(i, n)))>>
                /\ selectedIndex = Num(WrapDown(i, n))

\* ArrowUp pressed on the first of several items: the highlight is on the last
ArrowUpWrappedToLast ==
    /\ event.op = "key"
    /\ event.key = "ArrowUp"
    /\ event.wasVisible
    /\ Len(event.beforeItems) >= 2
    /\ event.before = Num(0)
    /\ selectedIndex = Num(Len(items) - 1)

\* C5: an ArrowUp or ArrowDown key press on a visible palette with an empty
\* item list is a no-op: the highlighted index is unchanged and onSelect is
\* not invoked.
ArrowKeysNoOpWhenEmpty ==
    (event.op = "key" /\ event.key \in ArrowKeys /\ event.wasVisible
        /\ event.beforeItems = <<>>) =>
          /\ calls = <<>>
          /\ selectedIndex = event.before

\* C6: when the candidate list is replaced, the previously highlighted id
\* stays highlighted if the new list has it, otherwise index 0 of a non-empty
\* new list is highlighted, otherwise nothing; the highlight never points at
\* another item or past the end of the new list.
HighlightFollowsCandidates ==
    LET id == highlightedId(event.beforeItems, event.before)
    IN event.op = "setCandidates" =>
          /\ ValidIndex(selectedIndex, items)
          /\ IF id # 0 /\ \E k \in 1..Len(items) : items[k] = id
             THEN highlightedId(items, selectedIndex) = id
             ELSE IF items # <<>> THEN selectedIndex = Num(0)
             ELSE selectedIndex = Undefined

\* The highlighted item survives a filter change at another position
HighlightMovedWithItem ==
    /\ event.op = "setCandidates"
    /\ highlightedId(event.beforeItems, event.before) # 0
    /\ highlightedId(items, selectedIndex)
          = highlightedId(event.beforeItems, event.before)
    /\ selectedIndex # event.before

-----------------------------------------------------------------------------
(* Properties of the command executor (SpecExecutor) *)

\* The entries of a log (socketCalls, alerts, sent) made by dispatch d
Of(log, d) == {k \in 1..Len(log) : log[k].d = d}

\* C7: a command that requires a session, dispatched while there is none, is
\* rejected with one user-facing alert and makes no remote call.
RejectedWithoutSession ==
    \A d \in 1..Len(dispatches) :
        LET r == dispatches[d]
        IN (r.command.requiresSession /\ r.sessionId = "") =>
              /\ r.phase = "rejected"
              /\ Cardinality(Of(alerts, d)) = 1
              /\ \A k \in Of(alerts, d) : alerts[k].message # ""
              /\ Of(socketCalls, d) = {}

\* A session-requiring command rejected while the socket is connected
RejectedWhileConnected ==
    \E d \in 1..Len(dispatches) :
        /\ dispatches[d].command.requiresSession
        /\ dispatches[d].sessionId = ""
        /\ dispatches[d].phase = "rejected"
        /\ connected
        /\ Len(dispatches) = MaxDispatches

LiveRpc(r) == r.command.type = "rpc" /\ r.sessionId # "" /\ r.viaSocket

\* C8: each dispatch of a remote-call command with a live session makes
\* exactly one remote call, with that session's id and the command's method
\* name; a successful response gives no failure, and a failed call is not
\* made again.
OneRemoteCallPerDispatch ==
    \A d \in 1..Len(dispatches) :
        LET r == dispatches[d]
        IN LiveRpc(r) =>
              /\ Cardinality(Of(socketCalls, d)) = 1
              /\ \A k \in Of(socketCalls, d) :
                    /\ socketCalls[k].sessionId = r.sessionId
                    /\ socketCalls[k].method = r.command.rpcName
              /\ (r.phase = "settled" /\ r.reply.kind = "response" /\ r.reply.success)
                    => (Of(alerts, d) = {} /\ d \notin escaped)

\* One live remote call that succeeded and one that failed, both settled
LiveCallsSucceededAndFailed ==
    \E d1, d2 \in 1..Len(dispatches) :
        /\ LiveRpc(dispatches[d1]) /\ LiveRpc(dispatches[d2])
        /\ dispatches[d1].phase = "settled" /\ dispatches[d2].phase = "settled"
        /\ dispatches[d1].reply.kind = "response" /\ dispatches[d1].reply.success
        /\ dispatches[d2].reply.kind = "throw"
        /\ Cardinality(Of(socketCalls, d2)) = 1

\* The remote call of dispatch r ended in success
Succeeded(r) == r.viaSocket /\ r.reply.kind = "response" /\ r.reply.success

\* C9: whatever the remote call does (success, failure response, missing
\* connection, thrown or rejected transport error, malformed response), no
\* exception leaves the dispatcher, and every outcome but success is
\* reported as one failure with a message.
NoTransportErrorEscapes ==
    /\ escaped = {}
    /\ \A d \in 1..Len(dispatches) :
          LET r == dispatches[d]
          IN (r.command.type = "rpc" /\ r.phase = "settled" /\ ~Succeeded(r)) =>
                /\ Cardinality(Of(alerts, d)) = 1
                /\ \A k \in Of(alerts, d) : alerts[k].message # ""

\* A dispatch settled on a malformed response and one on a missing connection
SettledOnMalformedAndUnconnected ==
    \E d1, d2 \in 1..Len(dispatches) :
        /\ dispatches[d1].phase = "settled" /\ dispatches[d1].reply.kind = "malformed"
        /\ dispatches[d2].phase = "settled" /\ dispatches[d2].command.type = "rpc"
        /\ ~dispatches[d2].viaSocket

\* C10: dispatching a send-as-message command forwards the command's trigger
\* text to the message-send channel exactly once and makes no remote call.
MessageCommandForwardsTrigger ==
    \A d \in 1..Len(dispatches) :
        LET r == dispatches[d]
        IN (r.command.type = "message" /\ r.phase = "settled") =>
              /\ Cardinality(Of(sent, d)) = 1
              /\ \A k \in Of(sent, d) : sent[k].text = r.command.trigger
              /\ Of(socketCalls, d) = {}

-----------------------------------------------------------------------------
(* Properties of AgentInput, its palette and its autocomplete
   (SpecAgentInput, SpecFilter) *)

\* The dispatches whose remote call has not settled
InFlight == {d \in 1..Len(dispatches) : dispatches[d].phase = "awaiting"}

\* C11: while a dispatch is in flight a further confirmation starts no
\* second dispatch: at most one remote call is outstanding at any time.
AtMostOneDispatchInFlight == Cardinality(InFlight) <= 1

Slash == <<"/">>

\* The last operation was the first render or a change of the input text.
InputJustSet == agentEvent.op \in {"mount", "change"}

\* The rows on screen: none when the render has thrown
OnScreen ==
    presented(temporalDeadZone, showCommandPalette, showAutocomplete,
              filteredCommands).rows

\* C12: when the trimmed input is exactly '/', the palette is shown, the
\* autocomplete is hidden and the list the open palette presents is the
\* whole registry in its declared order.
FullPaletteOnSlashAlone ==
    (InputJustSet /\ trim(value) = Slash) =>
        /\ showCommandPalette
        /\ ~showAutocomplete
        /\ OnScreen = registry

\* list is reg restricted to the positions in keep, in the order of reg
StableSelection(list, reg, keep) ==
    \E f \in [1..Len(list) -> 1..Len(reg)] :
        /\ \A i, j \in 1..Len(list) : i < j => f[i] < f[j]
        /\ {f[i] : i \in 1..Len(list)} = keep
        /\ \A i \in 1..Len(list) : list[i] = reg[f[i]]

\* p is s cut off somewhere
IsPrefix(p, s) == \E k \in 0..Len(s) : p = SubSeq(s, 1, k)

TriggerMatches(reg, typed) == {j \in 1..Len(reg) : IsPrefix(typed, reg[j].trigger)}

\* C13: when the trimmed input starts with '/' and is longer than '/', the
\* candidate list is exactly the registry entries whose trigger starts with
\* the trimmed input, in registry order; no match gives the empty list.
NarrowedListIsStablePrefixFilter ==
    (/\ Mounted
     /\ InputJustSet
     /\ IsPrefix(Slash, trim(value))
     /\ trim(value) # Slash) =>
        /\ StableSelection(filteredCommands, registry,
                           TriggerMatches(registry, trim(value)))
        /\ (TriggerMatches(registry, trim(value)) = {} => filteredCommands = <<>>)

\* '/model' has been typed against a registry in which it matches the first
\* and the third entry but not the second
TwoOfThreeMatched ==
    /\ agentEvent.op = "change"
    /\ registry = FutureRegistry
    /\ trim(value) = <<"/", "m", "o", "d", "e", "l">>
    /\ filteredCommands = <<ModelCommand, ModelsCommand>>

Range(list) == {list[i] : i \in 1..Len(list)}

\* C14: the narrowing filter is monotonic: for inputs x and y that start
\* with '/', x a prefix of y, the candidates for y are among those for x.
NarrowingIsMonotonic ==
    (/\ agentEvent.op = "change"
     /\ IsPrefix(Slash, trim(prevValue))
     /\ IsPrefix(prevValue, value)) =>
        Range(filteredCommands) \subseteq Range(prevFiltered)

\* '/models' typed after '/model' dropped a candidate and kept one
NarrowedByOneMoreCharacter ==
    /\ agentEvent.op = "change"
    /\ prevValue = <<"/", "m", "o", "d", "e", "l">>
    /\ value = <<"/", "m", "o", "d", "e", "l", "s">>
    /\ Range(filteredCommands) # {}
    /\ Range(filteredCommands) # Range(prevFiltered)

\* C15: whenever the trimmed input is empty or does not start with '/', the
\* candidate list is empty and neither the palette nor the autocomplete is
\* visible, whatever was visible before: both flags of the mounted
\* AgentInput are off and its list is empty, and nothing is on screen.
NoCommandUiWithoutSlash ==
    ~IsPrefix(Slash, trim(value)) =>
        /\ Mounted => /\ ~showCommandPalette
                      /\ ~showAutocomplete
                      /\ filteredCommands = <<>>
        /\ OnScreen = <<>>

\* The input changed to a text without a leading '/' while the palette or
\* the autocomplete was open
PlainTextTypedOverOpenUi ==
    /\ agentEvent.op = "change"
    /\ agentEvent.prevPalette \/ agentEvent.prevAutocomplete
    /\ ~IsPrefix(Slash, trim(value))
    /\ value # <<>>

\* q occurs somewhere in s
IsSubstring(q, s) == \E a \in 0..Len(s), b \in 0..Len(s) : q = SubSeq(s, a + 1, b)

SearchMatches(reg, q) ==
    {j \in 1..Len(reg) :
        \/ IsSubstring(toLowerCase(q), toLowerCase(name(reg[j])))
        \/ IsSubstring(toLowerCase(q), toLowerCase(reg[j].trigger))
        \/ IsSubstring(toLowerCase(q), toLowerCase(description(reg[j])))}

FreshlyMounted(v) ==
    presented(temporalDeadZone,
              mount(temporalDeadZone, registry, v).palette,
              mount(temporalDeadZone, registry, v).autocomplete,
              mount(temporalDeadZone, registry, v).filtered)

was == lifecycle(agentEvent.prevPalette, agentEvent.prevAutocomplete)
now == lifecycle(showCommandPalette, showAutocomplete)

\* C18: the palette lifecycle has only the transitions Closed to Open(full)
\* when the input becomes '/' alone, Open(full) to Open(narrowed) when
\* characters matching a trigger prefix are typed, and Open(*) to Closed on
\* confirm, explicit close or input no longer starting with '/'.
LifecycleHasOnlySpecTransitions ==
    \/ agentEvent.op = "mount"
    \/ now = was
    \/ /\ was = "closed" /\ now = "full"
       /\ agentEvent.op = "change" /\ trim(value) = Slash
    \/ /\ was = "full" /\ now = "narrowed"
       /\ agentEvent.op = "change"
       /\ TriggerMatches(registry, trim(value)) # {}
    \/ /\ was \in {"full", "narrowed"} /\ now = "closed"
       /\ \/ agentEvent.op \in {"confirm", "settle", "resume", "close"}
          \/ agentEvent.op = "change" /\ ~IsPrefix(Slash, trim(value))

-----------------------------------------------------------------------------
(* Escape on the palette (SpecPalette) *)

\* C19: whenever the palette is visible an Escape key press invokes onClose
\* exactly once and onSelect not at all, for every item list and every
\* selectedIndex; when it is not visible no key press invokes any callback.
EscapeClosesVisiblePalette ==
    event.op = "key" =>
        /\ (event.wasVisible /\ event.key = "Escape") => calls = <<OnClose>>
        /\ ~event.wasVisible => calls = <<>>

\* Escape was pressed on a visible palette with no items
EscapePressedOnEmptyPalette ==
    /\ event.op = "key"
    /\ event.key = "Escape"
    /\ event.wasVisible
    /\ event.beforeItems = <<>>
    /\ ~visible

-----------------------------------------------------------------------------
(* Properties of the model selector (SpecModal) *)

Rendered == ModelSelectorModal(modalVisible, isLoading, models)

\* C20: a visible ModelSelectorModal presents exactly one of three states:
\* loading whenever isLoading is true (even with an empty model list), the
\* empty 'Configure models in CLI' state when isLoading is false and the
\* list is empty, the selectable list when isLoading is false and the list
\* is non-empty; no model can be selected in the loading or empty state.
ModalShowsLoadingEmptyOrList ==
    /\ modalVisible =>
          /\ Rendered.state \in {"loading", "empty", "list"}
          /\ Rendered.state = "loading" <=> isLoading = "true"
          /\ Rendered.state = "empty" <=> (isLoading # "true" /\ models = <<>>)
          /\ Rendered.state = "list" <=> (isLoading # "true" /\ models # <<>>)
    /\ \A i \in 1..Len(modalCalls) :
          modalCalls[i].fn = "onSelect" =>
              /\ modalEvent.view.state = "list"
              /\ modalCalls[i].modelId = modalEvent.view.rows[modalEvent.row]

\* The backdrop was pressed while the modal was loading with no models
LoadingShownOverEmptyList ==
    /\ modalVisible
    /\ isLoading = "true"
    /\ models = <<>>
    /\ modalEvent.op = "backdrop"
    /\ modalEvent.view.state = "loading"

-----------------------------------------------------------------------------
(* The selected row of the model selector (SpecModal) *)

CurrentProps == ModalProps(modalVisible, models, selectedModelId, isLoading)

\* C21: in the list a model row is rendered selected if and only if its id
\* equals the selectedModelId prop; with unique ids and selectedModelId
\* naming a listed model, exactly one row is shown selected.
SelectedRowIsTheSelectedModel ==
    Rendered.state = "list" =>
        /\ \A i \in 1..Len(models) :
              i \in selectedRows(CurrentProps) <=> models[i] = selectedModelId
        /\ (\E i \in 1..Len(models) : models[i] = selectedModelId) =>
              Cardinality(selectedRows(CurrentProps)) = 1

-----------------------------------------------------------------------------
(* Moving the highlight and confirming on the palette (SpecPalette) *)

\* What a tap on some row or Enter would have called in the state the key
\* press saw
ConfirmCalls(list, sel) ==
    ({handleSelect(Num(i - 1)) : i \in 1..Len(list)}
        \cup {keydown("Enter", TRUE, sel, Len(list))}) \ {<<>>}

\* C22: an ArrowUp or ArrowDown press on a visible palette only moves the
\* highlight: the palette is not closed, and the owner can tell the move
\* from a confirmation, which only Enter or a tap on an item makes.
ArrowMoveIsNoConfirmation ==
    (event.op = "key" /\ event.key \in ArrowKeys /\ event.wasVisible) =>
        /\ visible
        /\ calls \notin ConfirmCalls(event.beforeItems, event.before)

-----------------------------------------------------------------------------
(* Confirming a command in AgentInput (SpecAgentInput) *)

\* C23: after the 'model' command is selected from the palette or the
\* autocomplete, both are hidden, the selection dispatches no remote call,
\* and the ModelSelectorModal, whose visibility is isActive of the '/model'
\* detector, is visible.
ModelSelectionOpensModal ==
    (agentEvent.op = "confirm" /\ agentEvent.command = "model") =>
        /\ ~showCommandPalette
        /\ ~showAutocomplete
        /\ agentEvent.d = 0
        /\ isModelCommandActive(value)

-----------------------------------------------------------------------------
(* The executing flag (SpecExecutor) *)

\* The dispatches whose remote call is with the socket and has not settled
Outstanding == {d \in InFlight : dispatches[d].viaSocket}

\* C24: under any interleaving of overlapping dispatch calls the executing
\* flag is true whenever at least one remote call is outstanding.
ExecutingWhileCallOutstanding == Outstanding # {} => isExecuting

\* C25: every dispatch that passes the session check has set the executing
\* flag when its remote call is awaited, and once the calls have settled,
\* in whatever way, the flag is false again.
ExecutingFlagBracketsTheCall ==
    /\ [](InFlight = {} => ~isExecuting)
    /\ [][(/\ Len(dispatches') > Len(dispatches)
           /\ dispatches'[Len(dispatches')].phase = "awaiting") => isExecuting']_vars

\* Two calls have settled, one of them on a thrown error, and the flag is
\* false
FlagFalseAfterThrownError ==
    /\ Len(dispatches) = 2
    /\ InFlight = {}
    /\ \E d \in 1..Len(dispatches) :
          dispatches[d].phase = "settled" /\ dispatches[d].reply.kind = "throw"
    /\ ~isExecuting

-----------------------------------------------------------------------------
(* Enter on the palette (SpecPalette) *)

\* C26: an Enter press on a visible palette with an empty item list invokes
\* neither onSelect nor onClose; with a non-empty list it invokes onSelect
\* exactly once, with the current selectedIndex.
EnterConfirmsOnlyWithItems ==
    (event.op = "key" /\ event.key = "Enter" /\ event.wasVisible) =>
        IF event.beforeItems = <<>> THEN calls = <<>>
        ELSE calls = <<OnSelect(event.before)>>

\* Enter was pressed on a visible palette with no items
EnterPressedOnEmptyPalette ==
    /\ event.op = "key"
    /\ event.key = "Enter"
    /\ event.wasVisible
    /\ event.beforeItems = <<>>
    /\ calls = <<>>
    /\ visible

-----------------------------------------------------------------------------
(* After a confirmed command (SpecAgentInput) *)

Cleared == value = <<>> /\ ~showCommandPalette /\ ~showAutocomplete

\* The dispatches whose handleCommandSelect call is queued
Queued == {microtasks[i].d : i \in 1..Len(microtasks)}

PaletteAndAutocompleteExclusive ==
    /\ ~(showCommandPalette /\ showAutocomplete)
    /\ showAutocomplete => TriggerMatches(registry, trim(value)) # {}

\* The autocomplete is still open behind a confirmed command whose remote
\* call is awaited
AutocompleteOpenDuringCall ==
    /\ agentEvent.op = "confirm"
    /\ agentEvent.d # 0
    /\ showAutocomplete
    /\ isExecuting

====
